---- MODULE Spec2Model ----
(***************************************************************************)
(* Model of fpoffline/denoise.py: the sliding-window denoiser of FVC       *)
(* images, in its torch (denoise_torch / torch_grid_window) and numpy      *)
(* (denoise_numpy) pipelines.                                              *)
(*                                                                         *)
(* The 6000x6000 raster is modelled by an ImageSize x ImageSize raster.    *)
(* Arrays are records [h, w, px] with px a function on                     *)
(* (0..h-1) \X (0..w-1); only the (H, W) axes of the (1, 1, H, W) layout   *)
(* carry information.                                                      *)
(***************************************************************************)
EXTENDS Integers, Sequences, FiniteSets, TLC

\* Edge of the square raster (6000 in denoise.py, lines 148, 165, 282, 302).
ImageSize == 5

\* Largest padding argument tried.
MaxPadding == 11

\* patch_size arguments tried are -PatchUnder .. ImageSize + PatchOver.
PatchUnder == 2

PatchOver == 2

\* Largest number of tiles of a grid that is processed out of order.
MaxTiles == 4

\* The border width cut from every inference result (10:-10).
Trim == 10

Max(a, b) == IF a >= b THEN a ELSE b

Min(a, b) == IF a <= b THEN a ELSE b

---------------------------------------------------------------------------
\* numpy array primitives

\* the index pairs of an h x w array
Grid(h, w) == (0 .. h - 1) \X (0 .. w - 1)

\* np.zeros((1, 1, h, w))
ZerosHW(h, w) == [h |-> h, w |-> w, px |-> [p \in Grid(h, w) |-> 0]]

Empty == ZerosHW(0, 0)

\* np.zeros((1, 1, n, n))
Zeros(n) == ZerosHW(n, n)

\* np.pad(a, ((0,0), (0,0), (p,0), (p,0))): padding before the data only
np_padLeading(a, p) ==
    [h |-> a.h + p, w |-> a.w + p,
     px |-> [q \in Grid(a.h + p, a.w + p) |->
                IF q[1] >= p /\ q[2] >= p
                THEN a.px[<<q[1] - p, q[2] - p>>]
                ELSE 0]]

\* np.pad(a, ((0,0), (0,0), (p,p), (p,p))): a zero-filled copy
np_pad(a, p) ==
    [h |-> a.h + 2 * p, w |-> a.w + 2 * p,
     px |-> [q \in Grid(a.h + 2 * p, a.w + 2 * p) |->
                IF /\ q[1] - p \in 0 .. a.h - 1
                   /\ q[2] - p \in 0 .. a.w - 1
                THEN a.px[<<q[1] - p, q[2] - p>>]
                ELSE 0]]

\* Python's normalisation of one slice bound k on an axis of length L
SliceBound(k, L) == IF k < 0 THEN Max(k + L, 0) ELSE Min(k, L)

\* a[:, :, hs:he, ws:we]
Slice(a, hs, he, ws, we) ==
    LET r0 == SliceBound(hs, a.h)
        r1 == SliceBound(he, a.h)
        c0 == SliceBound(ws, a.w)
        c1 == SliceBound(we, a.w)
        h  == Max(r1 - r0, 0)
        w  == Max(c1 - c0, 0)
    IN  [h |-> h, w |-> w,
         px |-> [q \in Grid(h, w) |-> a.px[<<r0 + q[1], c0 + q[2]>>]]]

\* numpy's rule for an in-place "dst[window] += src": every axis of src
\* has the length of the window or length 1
CanBroadcast(src, dh, dw) ==
    /\ src.h = dh \/ src.h = 1
    /\ src.w = dw \/ src.w = 1

\* dst[:, :, r0:r1, c0:c1] += src
AddWindow(dst, r0, r1, c0, c1, src) ==
    [dst EXCEPT !.px =
        [p \in DOMAIN dst.px |->
            IF p[1] \in r0 .. r1 - 1 /\ p[2] \in c0 .. c1 - 1
            THEN dst.px[p] + src.px[<<IF src.h = 1 THEN 0 ELSE p[1] - r0,
                                      IF src.w = 1 THEN 0 ELSE p[2] - c0>>]
            ELSE dst.px[p]]]

\* int(a / b) for b # 0: true division, truncated toward zero
IntDiv(a, b) ==
    IF b > 0 THEN a \div b ELSE 0 - (a \div (0 - b))

---------------------------------------------------------------------------
\* The boundary list built by the k-loop and the final append.

\* the k-loop appending patch_size * (k + 1)
RECURSIVE PatchStartsOffByOne(_, _)
PatchStartsOffByOne(k, patch_size) ==
    IF k <= 0 THEN << >>
    ELSE Append(PatchStartsOffByOne(k - 1, patch_size), patch_size * k)

RECURSIVE PatchStarts(_, _)
PatchStarts(k, patch_size) ==
    IF k <= 0 THEN << >>
    ELSE Append(PatchStarts(k - 1, patch_size), patch_size * (k - 1))

\* the final append taking patch_size * patchs_per_dim for len(data)
WindowEndIdxDropRemainder(len, patch_size) ==
    Append(PatchStarts(IntDiv(len, patch_size), patch_size),
           patch_size * IntDiv(len, patch_size))

WindowEndIdx(len, patch_size) ==
    Append(PatchStarts(IntDiv(len, patch_size), patch_size), len)

---------------------------------------------------------------------------
\* The per-tile network.  It maps a (1, 1, H, W) window to a result of the
\* same shape; "identity" returns the window, "offset" adds one to each
\* pixel.

ModelKinds == {"identity", "offset"}

Infer(kind, win) ==
    IF kind = "identity" THEN win
    ELSE [win EXCEPT !.px = [p \in DOMAIN win.px |-> win.px[p] + 1]]

\* Whether a forward pass of np_DnCNN can succeed: it walks the layer list
\* and fails at a named layer that has no index table or no parameter.
InferOutcomes(consistent) == IF consistent THEN BOOLEAN ELSE {FALSE}

---------------------------------------------------------------------------
\* Inputs

Files == {"weights", "layers", "im2col"}

\* The caller's images: one with a distinct value at every pixel, one flat.
Images ==
    { [h |-> ImageSize, w |-> ImageSize,
       px |-> [q \in Grid(ImageSize, ImageSize) |->
                  q[1] * ImageSize + q[2] + 1]],
      [h |-> ImageSize, w |-> ImageSize,
       px |-> [q \in Grid(ImageSize, ImageSize) |-> 7]] }

\* What the loaded layer list, index tables and parameters can be like:
\* only denoise_numpy reads a layer list and index tables, and only files
\* that exist have a content.
LayerStates(b, fs) ==
    IF b = "numpy" /\ fs = Files THEN BOOLEAN ELSE {TRUE}

PatchSizes == (0 - PatchUnder) .. (ImageSize + PatchOver)

Paddings == 0 .. MaxPadding

Pixels == Grid(ImageSize, ImageSize)

---------------------------------------------------------------------------
VARIABLES
    pc,              \* position of the running call
    backend,         \* "torch" (denoise_torch) or "numpy" (denoise_numpy)
    mem,             \* the array buffers: data, padded, full
    data0,           \* the caller's image as it was at call time
    noisy,           \* the buffer the name `noisy` refers to
    patch_size,
    padding,
    files,           \* the files present under filepath
    model,           \* the network the call runs
    window_end_idx,
    i, j,            \* the loop indices of the tile loop
    patch,           \* noise_data window / denoised_patch of the tile
    result,          \* the array handed back to the caller
    err,             \* the exception that ended the call, or "none"
    inferLog,        \* the (i, j) of every inference invocation, in order
    loads,           \* number of times the trained parameters were loaded
    writes,          \* per output pixel, how many tiles have added to it
    layersOK,        \* every layer named in the layer list has its index
                     \* table and its parameters in the loaded files
    device,          \* the module global `device`, set at import
    cuda_available,  \* what torch.cuda.is_available() answers now
    deviceLive,      \* the tensors alive on the execution device
    deviceUses,      \* the devices that transfers of this process went to
    stage,           \* out-of-order processing: the step each tile is at
    tpatch,          \* out-of-order processing: the patch of each tile
    reordered        \* a tile was written before an earlier one of the loop

\* the state of the process and of the execution device
devVars == <<device, cuda_available, deviceLive, deviceUses>>

\* the state of out-of-order tile processing
tileVars == <<stage, tpatch, reordered>>

vars == <<pc, backend, mem, data0, noisy, patch_size, padding, files, model,
          window_end_idx, i, j, patch, result, err, inferLog, loads, writes,
          layersOK, device, cuda_available, deviceLive, deviceUses, stage,
          tpatch, reordered>>

data == mem["data"]

full == mem["full"]

\* len(window_end_idx) - 1: the bound of both tile loops
GridLen == Len(window_end_idx) - 1

Init ==
    /\ pc = "idle"
    /\ backend = "none"
    /\ mem = [b \in {"data", "padded", "full"} |-> Empty]
    /\ data0 = Empty
    /\ noisy = "none"
    /\ patch_size = 0
    /\ padding = 0
    /\ files = {}
    /\ model = "identity"
    /\ window_end_idx = << >>
    /\ i = 0
    /\ j = 0
    /\ patch = Empty
    /\ result = Empty
    /\ err = "none"
    /\ inferLog = << >>
    /\ loads = 0
    /\ writes = [p \in Pixels |-> 0]
    /\ layersOK = TRUE
    /\ cuda_available = TRUE
    /\ device = "cuda"
    /\ deviceLive = {}
    /\ deviceUses = {}
    /\ stage = << >>
    /\ tpatch = << >>
    /\ reordered = FALSE

\* The caller invokes denoise_torch or denoise_numpy on a 2D image.
Call ==
    /\ pc = "idle"
    /\ \E b \in {"torch", "numpy"}, img \in Images, ps \in PatchSizes,
          pad \in Paddings, fs \in SUBSET Files, m \in ModelKinds :
          /\ backend' = b
          /\ layersOK' \in LayerStates(b, fs)
          /\ mem' = [mem EXCEPT !["data"] = img]
          /\ data0' = img
          /\ patch_size' = ps
          /\ padding' = pad
          /\ files' = fs
          /\ model' = m
          /\ pc' = IF b = "torch" THEN "t_prepare" ELSE "np_artifacts"
    /\ UNCHANGED <<noisy, window_end_idx, i, j, patch, result, err, inferLog,
                   loads, writes>>
    /\ UNCHANGED <<devVars, tileVars>>

\* The call ends with exception e.
Raise(e) ==
    /\ pc' = "error"
    /\ err' = e

---------------------------------------------------------------------------
\* denoise_torch leaving the remainder out of its boundary list
TorchPrepareDropRemainder ==
    /\ pc = "t_prepare"
    /\ IF patch_size = 0
       THEN /\ Raise("ZeroDivisionError")
            /\ noisy' = "data"
            /\ UNCHANGED <<window_end_idx, mem>>
       ELSE /\ noisy' = "data"
            /\ window_end_idx' = WindowEndIdxDropRemainder(data.h, patch_size)
            /\ mem' = [mem EXCEPT !["full"] = Zeros(ImageSize)]
            /\ pc' = "loop"
            /\ UNCHANGED err
    /\ UNCHANGED <<backend, data0, patch_size, padding, files, model, i, j,
                   patch, result, inferLog, loads, writes>>
    /\ UNCHANGED <<layersOK, devVars, tileVars>>

\* denoise_torch, lines 148-165: reshape (a view of data), boundary list,
\* zero accumulator.  patch_size = 0 raises ZeroDivisionError at line 153.
TorchPrepare ==
    /\ pc = "t_prepare"
    /\ IF patch_size = 0
       THEN /\ Raise("ZeroDivisionError")
            /\ noisy' = "data"
            /\ UNCHANGED <<window_end_idx, mem>>
       ELSE /\ noisy' = "data"
            /\ window_end_idx' = WindowEndIdx(data.h, patch_size)
            /\ mem' = [mem EXCEPT !["full"] = Zeros(ImageSize)]
            /\ pc' = "loop"
            /\ UNCHANGED err
    /\ UNCHANGED <<backend, data0, patch_size, padding, files, model, i, j,
                   patch, result, inferLog, loads, writes>>
    /\ UNCHANGED <<layersOK, devVars, tileVars>>

\* the outer loop running over range(len(window_end_idx) - 2)
LoopHeadShort ==
    /\ pc = "loop"
    /\ pc' = IF j < GridLen - 1
             THEN (IF backend = "torch" THEN "tgw_pad" ELSE "np_slice")
             ELSE "return"
    /\ UNCHANGED <<backend, mem, data0, noisy, patch_size, padding, files,
                   model, window_end_idx, i, j, patch, result, err, inferLog,
                   loads, writes>>
    /\ UNCHANGED <<layersOK, devVars, tileVars>>

\* Head of the nested loops "for j ...: for i ...:" (lines 171-172 and
\* 304-305): enter the body for tile (i, j) or leave the loops.
LoopHead ==
    /\ pc = "loop"
    /\ pc' = IF j < GridLen
             THEN (IF backend = "torch" THEN "tgw_pad" ELSE "np_slice")
             ELSE "return"
    /\ UNCHANGED <<backend, mem, data0, noisy, patch_size, padding, files,
                   model, window_end_idx, i, j, patch, result, err, inferLog,
                   loads, writes>>
    /\ UNCHANGED <<layersOK, devVars, tileVars>>

\* torch_grid_window, line 65: pad the full image into a fresh copy.
TGW_Pad ==
    /\ pc = "tgw_pad"
    /\ mem' = [mem EXCEPT !["padded"] = np_pad(mem[noisy], padding)]
    /\ pc' = "tgw_check"
    /\ UNCHANGED <<backend, data0, noisy, patch_size, padding, files, model,
                   window_end_idx, i, j, patch, result, err, inferLog, loads,
                   writes>>
    /\ UNCHANGED <<layersOK, devVars, tileVars>>

\* torch_grid_window, lines 68-70: assert model_path.exists()
TGW_CheckPath ==
    /\ pc = "tgw_check"
    /\ IF "weights" \in files
       THEN pc' = "tgw_load" /\ UNCHANGED err
       ELSE Raise("AssertionError")
    /\ UNCHANGED <<backend, mem, data0, noisy, patch_size, padding, files,
                   model, window_end_idx, i, j, patch, result, inferLog,
                   loads, writes>>
    /\ UNCHANGED <<layersOK, devVars, tileVars>>

\* the device asked for again at every transfer
TransferDeviceNow == IF cuda_available THEN "cuda" ELSE "cpu"

\* The device that model.to(device) and test_noise.to(device) name: the
\* module global (lines 76 and 89).
TransferDevice == device

\* torch_grid_window, lines 75-78: build the model, put it onto the device
\* and load its weights.
TGW_LoadModel ==
    /\ pc = "tgw_load"
    /\ loads' = loads + 1
    /\ deviceLive' = deviceLive \cup {"model"}
    /\ deviceUses' = deviceUses \cup {TransferDevice}
    /\ pc' = "tgw_forward"
    /\ UNCHANGED <<backend, mem, data0, noisy, patch_size, padding, files,
                   model, window_end_idx, i, j, patch, result, err, inferLog,
                   writes>>
    /\ UNCHANGED <<layersOK, device, cuda_available, tileVars>>

\* The window of tile (i, j) in the padded image: rows
\* [B[i], B[i+1] + 2*padding), columns [B[j], B[j+1] + 2*padding).
TileWindow ==
    Slice(mem["padded"],
          window_end_idx[i + 1], window_end_idx[i + 2] + padding * 2,
          window_end_idx[j + 1], window_end_idx[j + 2] + padding * 2)

\* the forward pass wrapped in a handler that records the failure and goes
\* on with an all-zero result
TGW_ForwardSwallow ==
    /\ pc = "tgw_forward"
    /\ inferLog' = Append(inferLog, <<i, j>>)
    /\ deviceUses' = deviceUses \cup {TransferDevice}
    /\ deviceLive' = deviceLive \cup {"test_noise", "output"}
    /\ \E ok \in BOOLEAN :
          /\ patch' = IF ok THEN Infer(model, TileWindow)
                      ELSE ZerosHW(TileWindow.h, TileWindow.w)
          /\ err' = IF ok THEN err ELSE "InferenceError"
          /\ pc' = "tgw_release"
    /\ UNCHANGED <<backend, mem, data0, noisy, patch_size, padding, files,
                   model, window_end_idx, i, j, result, loads, writes>>
    /\ UNCHANGED <<layersOK, device, cuda_available, tileVars>>

\* torch_grid_window, lines 88-95: slice the window, put it onto the
\* device, run the forward pass and copy its result to the host.  The
\* forward pass may raise (e.g. device memory exhausted).
TGW_Forward ==
    /\ pc = "tgw_forward"
    /\ inferLog' = Append(inferLog, <<i, j>>)
    /\ deviceUses' = deviceUses \cup {TransferDevice}
    /\ \E ok \in BOOLEAN :
          IF ok
          THEN /\ patch' = Infer(model, TileWindow)
               /\ deviceLive' = deviceLive \cup {"test_noise", "output"}
               /\ pc' = "tgw_release"
               /\ UNCHANGED err
          ELSE /\ Raise("InferenceError")
               /\ deviceLive' = deviceLive \cup {"test_noise"}
               /\ UNCHANGED patch
    /\ UNCHANGED <<backend, mem, data0, noisy, patch_size, padding, files,
                   model, window_end_idx, i, j, result, loads, writes>>
    /\ UNCHANGED <<layersOK, device, cuda_available, tileVars>>

\* the input tensor kept alive after the call (e.g. held in a cache)
TGW_ReleaseLeak ==
    /\ pc = "tgw_release"
    /\ deviceLive' = deviceLive \ {"output", "model"}
    /\ mem' = [mem EXCEPT !["padded"] = Empty]
    /\ pc' = "trim"
    /\ UNCHANGED <<backend, data0, noisy, patch_size, padding, files, model,
                   window_end_idx, i, j, patch, result, err, inferLog, loads,
                   writes>>
    /\ UNCHANGED <<layersOK, device, cuda_available, deviceUses, tileVars>>

\* torch_grid_window, lines 96-108: del output, del test_noise, empty the
\* cache and return; the model and the padded copy are locals of the call
\* and go with it.
TGW_Release ==
    /\ pc = "tgw_release"
    /\ deviceLive' = (deviceLive \ {"output", "test_noise"}) \ {"model"}
    /\ mem' = [mem EXCEPT !["padded"] = Empty]
    /\ pc' = "trim"
    /\ UNCHANGED <<backend, data0, noisy, patch_size, padding, files, model,
                   window_end_idx, i, j, patch, result, err, inferLog, loads,
                   writes>>
    /\ UNCHANGED <<layersOK, device, cuda_available, deviceUses, tileVars>>

\* Lines 190 and 322: denoised_patch[:, :, 10:-10, 10:-10]
TrimPatch ==
    /\ pc = "trim"
    /\ patch' = Slice(patch, Trim, 0 - Trim, Trim, 0 - Trim)
    /\ pc' = "stitch"
    /\ UNCHANGED <<backend, mem, data0, noisy, patch_size, padding, files,
                   model, window_end_idx, i, j, result, err, inferLog, loads,
                   writes>>
    /\ UNCHANGED <<layersOK, devVars, tileVars>>

\* the trimmed tile added to the array `noisy`
StitchTargetNoisy == noisy

\* The buffer the trimmed tile is added to.

StitchTarget == "full"

\* the loops nested the other way round: "for i ...: for j ...:"
StitchRowMajor ==
    /\ pc = "stitch"
    /\ LET r0 == window_end_idx[i + 1]
           r1 == window_end_idx[i + 2]
           c0 == window_end_idx[j + 1]
           c1 == window_end_idx[j + 2]
       IN  IF CanBroadcast(patch, r1 - r0, c1 - c0)
           THEN /\ mem' = [mem EXCEPT ![StitchTarget] =
                              AddWindow(@, r0, r1, c0, c1, patch)]
                /\ writes' = [p \in Pixels |->
                                 IF /\ p[1] \in r0 .. r1 - 1
                                    /\ p[2] \in c0 .. c1 - 1
                                 THEN writes[p] + 1 ELSE writes[p]]
                /\ IF j + 1 < GridLen
                   THEN j' = j + 1 /\ i' = i
                   ELSE IF i + 1 < GridLen
                        THEN j' = 0 /\ i' = i + 1
                        ELSE j' = GridLen /\ i' = 0
                /\ pc' = "loop"
                /\ UNCHANGED err
           ELSE /\ Raise("ValueError")
                /\ UNCHANGED <<mem, writes, i, j>>
    /\ UNCHANGED <<backend, data0, noisy, patch_size, padding, files, model,
                   window_end_idx, patch, result, inferLog, loads>>
    /\ UNCHANGED <<layersOK, devVars, tileVars>>

\* Lines 193-194 and 325-326: full[:, :, B[i]:B[i+1], B[j]:B[j+1]] +=
\* denoised_patch, then the next (i, j) of the nested loops.  numpy raises
\* ValueError when the patch cannot be broadcast to the window.
Stitch ==
    /\ pc = "stitch"
    /\ LET r0 == window_end_idx[i + 1]
           r1 == window_end_idx[i + 2]
           c0 == window_end_idx[j + 1]
           c1 == window_end_idx[j + 2]
       IN  IF CanBroadcast(patch, r1 - r0, c1 - c0)
           THEN /\ mem' = [mem EXCEPT ![StitchTarget] =
                              AddWindow(@, r0, r1, c0, c1, patch)]
                /\ writes' = [p \in Pixels |->
                                 IF /\ p[1] \in r0 .. r1 - 1
                                    /\ p[2] \in c0 .. c1 - 1
                                 THEN writes[p] + 1 ELSE writes[p]]
                /\ IF i + 1 < GridLen
                   THEN i' = i + 1 /\ j' = j
                   ELSE i' = 0 /\ j' = j + 1
                /\ pc' = "loop"
                /\ UNCHANGED err
           ELSE /\ Raise("ValueError")
                /\ UNCHANGED <<mem, writes, i, j>>
    /\ UNCHANGED <<backend, data0, noisy, patch_size, padding, files, model,
                   window_end_idx, patch, result, inferLog, loads>>
    /\ UNCHANGED <<layersOK, devVars, tileVars>>

\* Lines 198 and 330: return full[0][0]
Return ==
    /\ pc = "return"
    /\ result' = full
    /\ pc' = "done"
    /\ UNCHANGED <<backend, mem, data0, noisy, patch_size, padding, files,
                   model, window_end_idx, i, j, patch, err, inferLog, loads,
                   writes>>
    /\ UNCHANGED <<layersOK, devVars, tileVars>>

---------------------------------------------------------------------------
\* denoise_numpy, lines 263-271: the index-table and layer-list files must
\* exist, then they are loaded.
NP_CheckArtifacts ==
    /\ pc = "np_artifacts"
    /\ IF {"im2col", "layers"} \subseteq files
       THEN pc' = "np_weights" /\ UNCHANGED err
       ELSE Raise("AssertionError")
    /\ UNCHANGED <<backend, mem, data0, noisy, patch_size, padding, files,
                   model, window_end_idx, i, j, patch, result, inferLog,
                   loads, writes>>
    /\ UNCHANGED <<layersOK, devVars, tileVars>>

\* denoise_numpy, lines 276-278: the weights file must exist, then it is
\* loaded.
NP_LoadWeights ==
    /\ pc = "np_weights"
    /\ IF "weights" \in files
       THEN pc' = "np_prepare" /\ loads' = loads + 1 /\ UNCHANGED err
       ELSE Raise("AssertionError") /\ UNCHANGED loads
    /\ UNCHANGED <<backend, mem, data0, noisy, patch_size, padding, files,
                   model, window_end_idx, i, j, patch, result, inferLog,
                   writes>>
    /\ UNCHANGED <<layersOK, devVars, tileVars>>

\* denoise_numpy, lines 282-302: reshape, pad into a copy that `noisy` is
\* rebound to, boundary list, zero accumulator.  patch_size = 0 raises
\* ZeroDivisionError at line 291, after the padding.
NP_Prepare ==
    /\ pc = "np_prepare"
    /\ noisy' = "padded"
    /\ IF patch_size = 0
       THEN /\ Raise("ZeroDivisionError")
            /\ mem' = [mem EXCEPT !["padded"] = np_pad(data, padding)]
            /\ UNCHANGED window_end_idx
       ELSE /\ window_end_idx' = WindowEndIdx(data.h, patch_size)
            /\ mem' = [mem EXCEPT !["padded"] = np_pad(data, padding),
                                  !["full"] = Zeros(ImageSize)]
            /\ pc' = "loop"
            /\ UNCHANGED err
    /\ UNCHANGED <<backend, data0, patch_size, padding, files, model, i, j,
                   patch, result, inferLog, loads, writes>>
    /\ UNCHANGED <<layersOK, devVars, tileVars>>

\* denoise_numpy, lines 309-311: the window of tile (i, j).
NP_Slice ==
    /\ pc = "np_slice"
    /\ patch' = TileWindow
    /\ pc' = "np_model"
    /\ UNCHANGED <<backend, mem, data0, noisy, patch_size, padding, files,
                   model, window_end_idx, i, j, result, err, inferLog, loads,
                   writes>>
    /\ UNCHANGED <<layersOK, devVars, tileVars>>

\* denoise_numpy, lines 314-317: run np_DnCNN on the window; it may raise.
NP_Model ==
    /\ pc = "np_model"
    /\ inferLog' = Append(inferLog, <<i, j>>)
    /\ \E ok \in InferOutcomes(layersOK) :
          IF ok
          THEN /\ patch' = Infer(model, patch)
               /\ pc' = "trim"
               /\ UNCHANGED err
          ELSE /\ Raise("InferenceError")
               /\ UNCHANGED patch
    /\ UNCHANGED <<backend, mem, data0, noisy, patch_size, padding, files,
                   model, window_end_idx, i, j, result, loads, writes>>
    /\ UNCHANGED <<layersOK, devVars, tileVars>>

---------------------------------------------------------------------------
Next ==
    \/ Call
    \/ TorchPrepare
    \/ LoopHead
    \/ TGW_Pad
    \/ TGW_CheckPath
    \/ TGW_LoadModel
    \/ TGW_Forward
    \/ TGW_Release
    \/ TrimPatch
    \/ Stitch
    \/ Return
    \/ NP_CheckArtifacts
    \/ NP_LoadWeights
    \/ NP_Prepare
    \/ NP_Slice
    \/ NP_Model

Spec == Init /\ [][Next]_vars

FairSpec == Spec /\ WF_vars(Next)

---------------------------------------------------------------------------
\* The process around the calls: the module is imported once, calls follow
\* one another, and the availability of an accelerator may change.

\* Line 9, run at import: device = "cuda" if torch.cuda.is_available()
\* else "cpu"
InitProcess ==
    /\ pc = "idle"
    /\ backend = "none"
    /\ mem = [b \in {"data", "padded", "full"} |-> Empty]
    /\ data0 = Empty
    /\ noisy = "none"
    /\ patch_size = 0
    /\ padding = 0
    /\ files = {}
    /\ model = "identity"
    /\ window_end_idx = << >>
    /\ i = 0
    /\ j = 0
    /\ patch = Empty
    /\ result = Empty
    /\ err = "none"
    /\ inferLog = << >>
    /\ loads = 0
    /\ writes = [p \in Pixels |-> 0]
    /\ layersOK = TRUE
    /\ cuda_available \in BOOLEAN
    /\ device = (IF cuda_available THEN "cuda" ELSE "cpu")
    /\ deviceLive = {}
    /\ deviceUses = {}
    /\ stage = << >>
    /\ tpatch = << >>
    /\ reordered = FALSE

\* An accelerator appears or disappears.
EnvChange ==
    /\ cuda_available' = ~cuda_available
    /\ UNCHANGED <<pc, backend, mem, data0, noisy, patch_size, padding, files,
                   model, window_end_idx, i, j, patch, result, err, inferLog,
                   loads, writes>>
    /\ UNCHANGED <<layersOK, device, deviceLive, deviceUses, tileVars>>

\* The caller has the result or the exception of a call; the locals of the
\* call are gone and the process is ready for the next call.
Finish ==
    /\ pc \in {"done", "error"}
    /\ pc' = "idle"
    /\ backend' = "none"
    /\ mem' = [b \in {"data", "padded", "full"} |-> Empty]
    /\ data0' = Empty
    /\ noisy' = "none"
    /\ patch_size' = 0
    /\ padding' = 0
    /\ files' = {}
    /\ model' = "identity"
    /\ window_end_idx' = << >>
    /\ i' = 0
    /\ j' = 0
    /\ patch' = Empty
    /\ result' = Empty
    /\ err' = "none"
    /\ inferLog' = << >>
    /\ loads' = 0
    /\ writes' = [p \in Pixels |-> 0]
    /\ layersOK' = TRUE
    /\ deviceLive' = {}
    /\ UNCHANGED <<device, cuda_available, deviceUses, tileVars>>

NextProcess ==
    \/ Next
    \/ EnvChange
    \/ Finish

SpecProcess == InitProcess /\ [][NextProcess]_vars

---------------------------------------------------------------------------
\* The tile loop with its iterations taken in any order and interleaved:
\* the body of lines 174-194 / 309-326 split into its three steps (infer,
\* trim, write), each tile at its own step.

\* the grid pairs (i, j) of the loops
LoopPairs == (0 .. GridLen - 1) \X (0 .. GridLen - 1)

\* the position of tile t in the order of the loops "for j: for i:"
LoopIndex(t) == t[2] * GridLen + t[1] + 1

\* inference reading the output accumulator
TileInputAccumulator == np_pad(full, padding)

\* The array a tile's window is cut from: the padded image (line 65 in
\* torch_grid_window, line 286 in denoise_numpy).
TileInput ==
    IF backend = "torch" THEN np_pad(mem[noisy], padding) ELSE mem["padded"]

\* lines 88 and 309-311 for tile t
TileWindowOf(t) ==
    Slice(TileInput,
          window_end_idx[t[1] + 1], window_end_idx[t[1] + 2] + padding * 2,
          window_end_idx[t[2] + 1], window_end_idx[t[2] + 2] + padding * 2)

\* The loops are entered: every tile is still to do.
AO_Start ==
    /\ pc = "loop"
    /\ GridLen * GridLen <= MaxTiles
    /\ stage' = [t \in LoopPairs |-> "todo"]
    /\ tpatch' = [t \in LoopPairs |-> Empty]
    /\ pc' = "tiles"
    /\ UNCHANGED <<backend, mem, data0, noisy, patch_size, padding, files,
                   model, window_end_idx, i, j, patch, result, err, inferLog,
                   loads, writes>>
    /\ UNCHANGED <<layersOK, devVars, reordered>>

\* Inference of some tile (lines 174-182 with 68-95, or 309-317): the
\* weights file is checked per tile in torch_grid_window; the forward pass
\* may raise.
AO_Infer ==
    /\ pc = "tiles"
    /\ \E t \in DOMAIN stage :
          /\ stage[t] = "todo"
          /\ IF backend = "torch" /\ "weights" \notin files
             THEN /\ Raise("AssertionError")
                  /\ UNCHANGED <<stage, tpatch>>
             ELSE \E ok \in (IF backend = "numpy"
                             THEN InferOutcomes(layersOK) ELSE BOOLEAN) :
                      IF ok
                      THEN /\ tpatch' = [tpatch EXCEPT
                                            ![t] = Infer(model,
                                                         TileWindowOf(t))]
                           /\ stage' = [stage EXCEPT ![t] = "inferred"]
                           /\ UNCHANGED <<pc, err>>
                      ELSE /\ Raise("InferenceError")
                           /\ UNCHANGED <<stage, tpatch>>
    /\ UNCHANGED <<backend, mem, data0, noisy, patch_size, padding, files,
                   model, window_end_idx, i, j, patch, result, inferLog,
                   loads, writes>>
    /\ UNCHANGED <<layersOK, devVars, reordered>>

\* Lines 190 and 322 for some inferred tile.
AO_Trim ==
    /\ pc = "tiles"
    /\ \E t \in DOMAIN stage :
          /\ stage[t] = "inferred"
          /\ tpatch' = [tpatch EXCEPT
                           ![t] = Slice(@, Trim, 0 - Trim, Trim, 0 - Trim)]
          /\ stage' = [stage EXCEPT ![t] = "trimmed"]
    /\ UNCHANGED <<pc, backend, mem, data0, noisy, patch_size, padding, files,
                   model, window_end_idx, i, j, patch, result, err, inferLog,
                   loads, writes>>
    /\ UNCHANGED <<layersOK, devVars, reordered>>

\* Lines 193-194 and 325-326 for some trimmed tile.
AO_Write ==
    /\ pc = "tiles"
    /\ \E t \in DOMAIN stage :
          /\ stage[t] = "trimmed"
          /\ LET r0 == window_end_idx[t[1] + 1]
                 r1 == window_end_idx[t[1] + 2]
                 c0 == window_end_idx[t[2] + 1]
                 c1 == window_end_idx[t[2] + 2]
             IN  IF CanBroadcast(tpatch[t], r1 - r0, c1 - c0)
                 THEN /\ mem' = [mem EXCEPT ![StitchTarget] =
                                    AddWindow(@, r0, r1, c0, c1, tpatch[t])]
                      /\ writes' = [p \in Pixels |->
                                       IF /\ p[1] \in r0 .. r1 - 1
                                          /\ p[2] \in c0 .. c1 - 1
                                       THEN writes[p] + 1 ELSE writes[p]]
                      /\ stage' = [stage EXCEPT ![t] = "written"]
                      /\ reordered' =
                            (\/ reordered
                             \/ \E u \in DOMAIN stage :
                                   /\ LoopIndex(u) < LoopIndex(t)
                                   /\ stage[u] # "written")
                      /\ UNCHANGED <<pc, err>>
                 ELSE /\ Raise("ValueError")
                      /\ UNCHANGED <<mem, writes, stage, reordered>>
    /\ UNCHANGED <<backend, data0, noisy, patch_size, padding, files, model,
                   window_end_idx, i, j, patch, result, inferLog, loads,
                   tpatch>>
    /\ UNCHANGED <<layersOK, devVars>>

\* Lines 198 and 330, once every tile is written.
AO_Return ==
    /\ pc = "tiles"
    /\ \A t \in DOMAIN stage : stage[t] = "written"
    /\ result' = full
    /\ pc' = "done"
    /\ UNCHANGED <<backend, mem, data0, noisy, patch_size, padding, files,
                   model, window_end_idx, i, j, patch, err, inferLog, loads,
                   writes>>
    /\ UNCHANGED <<layersOK, devVars, tileVars>>

NextAnyOrder ==
    \/ Call
    \/ TorchPrepare
    \/ NP_CheckArtifacts
    \/ NP_LoadWeights
    \/ NP_Prepare
    \/ AO_Start
    \/ AO_Infer
    \/ AO_Trim
    \/ AO_Write
    \/ AO_Return

SpecAnyOrder == Init /\ [][NextAnyOrder]_vars

---------------------------------------------------------------------------
\* denoise_numpy, lines 282-330, as a function of its arguments: the stitch
\* of the first k tiles of the loop order over image img with model m.

\* tile number k (from 1) of the loops "for j: for i:" over an n x n grid
LoopTile(k, n) == <<(k - 1) % n, (k - 1) \div n>>

\* lines 286 and 309-311
RefWindow(img, B, pad, t) ==
    Slice(np_pad(img, pad),
          B[t[1] + 1], B[t[1] + 2] + pad * 2,
          B[t[2] + 1], B[t[2] + 2] + pad * 2)

\* lines 314-322
RefPatch(img, B, pad, m, t) ==
    Slice(Infer(m, RefWindow(img, B, pad, t)), Trim, 0 - Trim, Trim, 0 - Trim)

\* lines 302 and 325-326 for tile t alone
RefTile(img, B, pad, m, t) ==
    AddWindow(Zeros(ImageSize),
              B[t[1] + 1], B[t[1] + 2], B[t[2] + 1], B[t[2] + 2],
              RefPatch(img, B, pad, m, t))

\* lines 302-326
RECURSIVE RefStitch(_, _, _, _, _)
RefStitch(img, B, pad, m, k) ==
    IF k = 0 THEN Zeros(ImageSize)
    ELSE LET t == LoopTile(k, Len(B) - 1)
         IN  AddWindow(RefStitch(img, B, pad, m, k - 1),
                       B[t[1] + 1], B[t[1] + 2], B[t[2] + 1], B[t[2] + 2],
                       RefPatch(img, B, pad, m, t))

---------------------------------------------------------------------------
\* Vocabulary of the properties

Called == pc # "idle"

Finished == pc \in {"done", "error"}

ValidPatch == patch_size \in 1 .. ImageSize

\* floor(a / b) for a >= 0, b # 0
FloorDiv(a, b) ==
    IF b > 0 THEN a \div b ELSE 0 - ((a + (0 - b) - 1) \div (0 - b))

\* the grid pairs (i, j) with 0 <= i, j < n
GridPairs(n) == (0 .. n - 1) \X (0 .. n - 1)

\* the destination window of grid pair t under boundary list B
InDest(B, t, p) ==
    /\ B[t[1] + 1] <= p[1] /\ p[1] < B[t[1] + 2]
    /\ B[t[2] + 1] <= p[2] /\ p[2] < B[t[2] + 2]

Planned == window_end_idx # << >>

Occurrences(log, t) == Cardinality({k \in 1 .. Len(log) : log[k] = t})

---------------------------------------------------------------------------
\* C1 -- Tiling completeness: when floor(image_size / patch_size) >= 1 the
\* destination windows of the grid pairs partition the output (each pixel
\* lies in exactly one window), no pixel is ever added to twice, and after
\* a complete run every pixel has been added to exactly once.
TilingCompleteness ==
    (Planned /\ patch_size # 0 /\ FloorDiv(ImageSize, patch_size) >= 1) =>
        /\ \A p \in Pixels :
              Cardinality({t \in GridPairs(GridLen) :
                              InDest(window_end_idx, t, p)}) = 1
        /\ \A p \in Pixels : writes[p] <= 1
        /\ pc = "done" => \A p \in Pixels : writes[p] = 1

\* a complete run over several tiles whose last tile holds the remainder
TilingCompletenessWitness ==
    /\ pc = "done"
    /\ GridLen >= 2
    /\ window_end_idx[GridLen + 1] - window_end_idx[GridLen] > patch_size
    /\ \A p \in Pixels : writes[p] = 1

\* C2 -- Identity model: with the identity as inference routine, every
\* denoise call with 1 <= patch_size <= image_size and padding >= 0 returns
\* an image equal pixel for pixel to the input, in both pipelines.
IdentityModelReturnsInput ==
    (/\ Finished
     /\ model = "identity"
     /\ ValidPatch
     /\ files = Files
     /\ err # "InferenceError") =>
        /\ pc = "done"
        /\ result = data0

\* C3 -- Shape invariance: for 1 <= patch_size <= image_size and
\* padding >= 0 the trimmed tile has exactly the shape of its destination
\* window, and the call completes with an image of the input's shape.
ShapeInvariance ==
    /\ (pc = "stitch" /\ ValidPatch) =>
          /\ patch.h = window_end_idx[i + 2] - window_end_idx[i + 1]
          /\ patch.w = window_end_idx[j + 2] - window_end_idx[j + 1]
    /\ (Finished /\ ValidPatch /\ files = Files /\ err # "InferenceError") =>
          /\ err = "none"
          /\ result.h = data0.h
          /\ result.w = data0.w

\* C4 -- Artifact validation: when the trained-parameter file is missing,
\* the call never returns an image and the inference primitive is never
\* invoked, in both pipelines.
ArtifactValidation ==
    (Called /\ "weights" \notin files) =>
        /\ pc # "done"
        /\ inferLog = << >>

\* C5 -- Abort on tile failure: once the inference of a tile has failed the
\* call has ended in an error, nothing is returned, and no further tile is
\* inferred or written.
AbortOnTileFailure ==
    /\ [](err = "InferenceError" => (pc = "error" /\ result = Empty))
    /\ [][err = "InferenceError" =>
            (/\ inferLog' = inferLog
             /\ mem' = mem
             /\ writes' = writes
             /\ err' = err)]_vars

\* a tile failed after other tiles were stitched and before the last tile
AbortOnTileFailureWitness ==
    /\ err = "InferenceError"
    /\ Len(inferLog) >= 2
    /\ Len(inferLog) < GridLen * GridLen
    /\ full # Zeros(ImageSize)

\* C6 -- Malformed patch configuration is rejected: with patch_size <= 0 or
\* patch_size > image size the call raises before any tile is processed and
\* never returns an image.
MalformedPatchRejected ==
    (Called /\ ~ValidPatch) =>
        /\ pc # "done"
        /\ result = Empty
        /\ inferLog = << >>

\* C7 -- Patch Grid Planner result: for 1 <= patch_size <= image_size and
\* n = floor(image_size / patch_size) the boundary list is
\* [0, patch_size, ..., (n-1)*patch_size, image_size]; every interval but
\* the last has length patch_size, the last has length
\* patch_size + (image_size mod patch_size).
PlannerResult ==
    (Planned /\ ValidPatch) =>
        LET n == ImageSize \div patch_size
            B == window_end_idx
        IN  /\ Len(B) = n + 1
            /\ \A k \in 1 .. n : B[k] = (k - 1) * patch_size
            /\ B[n + 1] = ImageSize
            /\ \A k \in 1 .. n - 1 : B[k + 1] - B[k] = patch_size
            /\ B[n + 1] - B[n] = patch_size + (ImageSize % patch_size)

\* a planned grid of several tiles with a remainder in the last one
PlannerResultWitness ==
    /\ Planned
    /\ ValidPatch
    /\ pc = "loop"
    /\ Len(window_end_idx) >= 3
    /\ ImageSize % patch_size # 0

\* C8 -- PatchGrid invariant: whenever the boundary list has been computed
\* and the call proceeds to the tile loop, the list is strictly increasing,
\* starts with 0 and ends with the image size, for every patch_size the
\* function accepts.
PatchGridInvariant ==
    (Planned /\ pc \notin {"idle", "error"}) =>
        LET B == window_end_idx
        IN  /\ \A k \in 1 .. Len(B) - 1 : B[k] < B[k + 1]
            /\ B[1] = 0
            /\ B[Len(B)] = ImageSize

\* C9 -- One inference per tile: a run that returns has invoked inference
\* exactly once for each grid pair (i, j), 0 <= i, j < n,
\* n = floor(image_size / patch_size): n*n invocations; every call ends;
\* for image size 6000 and patch_size 2000 the boundaries are
\* [0, 2000, 4000, 6000], 9 tiles.
OneInferencePerTile ==
    /\ [](pc = "done" =>
            LET n == FloorDiv(ImageSize, patch_size)
            IN  /\ \A t \in GridPairs(n) : Occurrences(inferLog, t) = 1
                /\ Len(inferLog) = Cardinality(GridPairs(n))
                /\ n >= 0 => Len(inferLog) = n * n)
    /\ [](LET B == WindowEndIdx(6000, 2000)
          IN  /\ B = <<0, 2000, 4000, 6000>>
              /\ (Len(B) - 1) * (Len(B) - 1) = 9)
    /\ Called ~> Finished

\* a returned run over a grid of several tiles
OneInferencePerTileWitness ==
    /\ pc = "done"
    /\ Len(inferLog) >= 4
    /\ result # Empty

\* C10 -- Input is never mutated: throughout a call, successful or
\* failing, the caller's image holds the values it had at call time.
InputNeverMutated ==
    Called => data = data0

\* tiles have been stitched and the caller's image is as it was
InputNeverMutatedWitness ==
    /\ pc = "stitch"
    /\ j >= 1
    /\ full # Zeros(ImageSize)
    /\ data = data0

\* C11 -- Artifacts are loaded once per run: within one call the trained
\* parameters are loaded exactly once, before the first tile is inferred,
\* and no tile triggers another load, in both pipelines.
ArtifactsLoadedOnce ==
    Called =>
        /\ loads <= 1
        /\ inferLog # << >> => loads = 1

\* C12 -- Portable backend layer validation: when a named layer has no
\* index table or no parameter, denoise_numpy fails without having invoked
\* the inference routine for any tile.
LayerValidationAtLoad ==
    (backend = "numpy" /\ ~layersOK) =>
        /\ inferLog = << >>
        /\ pc # "done"

\* C14 -- Device memory does not grow with tiles: whenever
\* torch_grid_window has returned, and so at the start of every tile, no
\* tensor of the call is alive on the device; the number of live device
\* tensors never exceeds a constant.
DeviceMemoryBounded ==
    /\ pc \in {"loop", "tgw_pad", "tgw_check", "trim", "stitch", "return",
               "done"} => deviceLive = {}
    /\ Cardinality(deviceLive) <= 3

\* a later tile of a torch run starts with an empty device
DeviceMemoryBoundedWitness ==
    /\ backend = "torch"
    /\ pc = "tgw_pad"
    /\ Len(inferLog) >= 2
    /\ deviceLive = {}

\* C15 -- Single device choice: the device is chosen once, at import, and
\* every model transfer and every tile input transfer of every later call
\* goes to that device, whatever the availability of an accelerator has
\* become since.
SingleDeviceChoice ==
    /\ [](deviceUses \subseteq {device})
    /\ [][device' = device]_vars

\* a later call about to transfer, after transfers of an earlier call and
\* a change of availability
SingleDeviceChoiceWitness ==
    /\ pc = "tgw_load"
    /\ loads = 0
    /\ deviceUses = {device}
    /\ TransferDeviceNow # device

\* C17 -- Tile visiting order (as claimed): the grid pairs are visited in
\* row-major order, i the row index: every tile of grid row i is inferred
\* before any tile of row i + 1, and within a row j increases.
RowMajorOrder ==
    \A k, l \in 1 .. Len(inferLog) :
        k < l =>
            \/ inferLog[k][1] < inferLog[l][1]
            \/ /\ inferLog[k][1] = inferLog[l][1]
               /\ inferLog[k][2] < inferLog[l][2]

\* C17 (amended) -- the grid pairs are visited in column-major order: the
\* k-th tile inferred is row (k-1) mod n of column (k-1) div n, so every
\* tile of grid column j is inferred and written before any tile of column
\* j + 1, and within a column the row index i increases.
ColumnMajorOrder ==
    /\ \A k \in 1 .. Len(inferLog) : inferLog[k] = LoopTile(k, GridLen)
    /\ pc \in {"trim", "stitch"} =>
          \A p \in Pixels :
              writes[p] > 0 <=>
                  \E k \in 1 .. Len(inferLog) - 1 :
                      InDest(window_end_idx, inferLog[k], p)

\* the first tile of the second column is about to be written
ColumnMajorOrderWitness ==
    /\ pc = "stitch"
    /\ GridLen >= 2
    /\ i = 0
    /\ j = 1
    /\ Len(inferLog) = GridLen + 1

\* C18 -- Window extraction bounds: the window passed to inference for
\* (i, j) is rows [B[i], B[i+1] + 2*padding) and columns
\* [B[j], B[j+1] + 2*padding) of the image zero-padded by `padding` on each
\* side; it lies inside the padded image, has shape
\* (tile_height + 2*padding) x (tile_width + 2*padding), and is zero
\* wherever it falls outside the original image.
WindowExtractionBounds ==
    pc \in {"tgw_forward", "np_model"} =>
        LET B   == window_end_idx
            P   == mem["padded"]
            win == IF pc = "np_model" THEN patch ELSE TileWindow
        IN  /\ P.h = ImageSize + 2 * padding
            /\ P.w = ImageSize + 2 * padding
            /\ B[i + 2] + 2 * padding <= P.h
            /\ B[j + 2] + 2 * padding <= P.w
            /\ win.h = (B[i + 2] - B[i + 1]) + 2 * padding
            /\ win.w = (B[j + 2] - B[j + 1]) + 2 * padding
            /\ \A q \in DOMAIN win.px :
                  LET r == B[i + 1] + q[1] - padding
                      c == B[j + 1] + q[2] - padding
                  IN  win.px[q] = IF <<r, c>> \in Pixels
                                  THEN data0.px[<<r, c>>]
                                  ELSE 0

\* the window of an inner-boundary tile with a real padding
WindowExtractionBoundsWitness ==
    /\ pc = "np_model"
    /\ i >= 1
    /\ j >= 1
    /\ padding >= 1
    /\ patch.h > window_end_idx[i + 2] - window_end_idx[i + 1]

\* C19 -- The two pipelines implement the same tiling: for the same image,
\* patch_size, padding and inference function, denoise_torch and
\* denoise_numpy have the same boundary list, pass the same window to
\* inference for every (i, j), write the same patch to the same
\* destination window and return the same image -- each pipeline agrees
\* with the same function of the arguments.
PipelinesSameTiling ==
    /\ Planned => window_end_idx = WindowEndIdx(ImageSize, patch_size)
    /\ pc = "tgw_forward" =>
          TileWindow = RefWindow(data0, window_end_idx, padding, <<i, j>>)
    /\ pc = "np_model" =>
          patch = RefWindow(data0, window_end_idx, padding, <<i, j>>)
    /\ pc = "stitch" =>
          patch = RefPatch(data0, window_end_idx, padding, model, <<i, j>>)
    /\ pc \in {"loop", "return"} =>
          full = RefStitch(data0, window_end_idx, padding, model,
                           Len(inferLog))
    /\ pc = "done" =>
          result = RefStitch(data0, window_end_idx, padding, model,
                             GridLen * GridLen)

\* a torch run over several tiles, the last one holding a remainder, has
\* returned
PipelinesSameTilingWitness ==
    /\ backend = "torch"
    /\ pc = "done"
    /\ GridLen >= 2
    /\ window_end_idx[GridLen + 1] - window_end_idx[GridLen] > patch_size
    /\ result # Zeros(ImageSize)

\* C16 -- Order independence of tiles: with the tiles processed in any
\* order and their infer / trim / write steps interleaved, every written
\* tile has put into its own destination window exactly what the
\* sequential loop puts there, every other window is still zero, and the
\* image returned is the image of the sequential loop.
OrderIndependence ==
    /\ pc = "tiles" =>
          \A t \in DOMAIN stage : \A p \in Pixels :
              InDest(window_end_idx, t, p) =>
                  full.px[p] =
                      IF stage[t] = "written"
                      THEN RefTile(data0, window_end_idx, padding, model, t)
                              .px[p]
                      ELSE 0
    /\ (pc = "done" /\ stage # << >>) =>
          result = RefStitch(data0, window_end_idx, padding, model,
                             GridLen * GridLen)

\* a run over several tiles has returned after writing them out of order
OrderIndependenceWitness ==
    /\ pc = "done"
    /\ reordered
    /\ Cardinality(DOMAIN stage) >= 4
    /\ \A t \in DOMAIN stage : stage[t] = "written"

====
